---- MODULE Spec2Model ----
(***************************************************************************)
(* fathom-cron: the sync engine (sync.py run_sync), the Fathom client      *)
(* (fathom_client.py list_meetings / _fetch_page / get_transcript) and the *)
(* state ledger (state.py StateManager), as one state machine.             *)
(*                                                                         *)
(* A meeting is modelled by str(meeting.get("recording_id", "")); the      *)
(* upstream listing is a sequence of pages held by the server; Drive and   *)
(* the Sheet are counted per recording id.                                 *)
(***************************************************************************)
EXTENDS Integers, Sequences, FiniteSets, TLC

\* ------------------------------------------------------------- bounds
MaxPages == 2
MaxPageLen == 2
MaxCycles == 2
MaxFaults == 2

\* ---------------------------------------------------- program constants
\* stop_after_attempt(3)
MaxAttempts == 3

\* ------------------------------------------------------------ universe
Ids == {"a", "b"}
ScenarioIds == {"m1", "m2", "m3", "m4", "m5"}
AllIds == Ids \cup ScenarioIds
\* a meeting without recording_id: str(meeting.get("recording_id", "")) = ""
NoId == ""
\* cursor = None
NoCursor == 0
\* the sentinel drive_file_id of an item that produced no artifact
NA == <<"N/A", 0>>
\* the id Drive assigns to the n-th file uploaded for recording rid
FileId(rid, n) == <<rid, n>>

RECURSIVE SeqsUpTo(_, _)
SeqsUpTo(S, n) ==
    IF n = 0 THEN {<<>>}
    ELSE LET shorter == SeqsUpTo(S, n - 1)
         IN  shorter \cup {Append(s, x) : s \in {t \in shorter : Len(t) = n - 1}, x \in S}

RECURSIVE Concat(_)
Concat(ps) == IF ps = <<>> THEN <<>> ELSE Head(ps).items \o Concat(Tail(ps))

VARIABLES
    \* the upstream service and the environment
    upstream,       \* the listing: a sequence of pages [items, next]
    transcript,     \* per recording id: "content", "empty" or "gone"
    faults,         \* number of calls the environment has made fail so far
    changed,        \* some transcript has become ready since the start
    \* the process
    pc,             \* where run_sync is: idle, list, listed, loop, fetch, upload, append, mark
    cycle,          \* number of run_sync calls started (also the clock of synced_at)
    stats,          \* run_sync's counters
    all_meetings,   \* list_meetings: accumulated items
    cursor,         \* list_meetings: cursor of the next request
    page,           \* list_meetings: page counter
    meetings,       \* run_sync: the listing it iterates
    idx,            \* run_sync: position of the for loop (1-based)
    transcript_data,\* run_sync: the fetched transcript body of the current item
    drive_file,     \* run_sync: the file returned by the upload of the current item
    processed,      \* StateManager.processed (in memory)
    disk,           \* the state file
    \* the collaborators
    drive,          \* number of files uploaded per recording id
    sheet,          \* number of rows appended per recording id
    fetches,        \* number of get_transcript calls per recording id
    \* observation (history) variables
    requests,       \* cursors list_meetings sent, one per _fetch_page call
    served,         \* pages the server answered with, in order
    acts,           \* this cycle: ids counted new, ids whose latest fetch came back empty
    prev            \* the previous cycle: its listing and its acts

VARIABLES
    \* the Fathom client's rate limiter and retry layer (fathom_client.py)
    now,            \* time.time(), in seconds
    request_times,  \* FathomClient._request_times
    stamps,         \* observation: every timestamp _throttle has recorded, in order
    call,           \* the _fetch_page / get_transcript call in progress
    events,         \* number of failed attempts and idle periods so far
    \* the service (main.py)
    main,           \* where the main thread is
    handlers,       \* the shutdown handlers are installed (signal.signal)
    sched,          \* the scheduler: none, running or stopped
    instances,      \* job instances the executor holds (submitted and not finished)
    calls,          \* number of run_sync calls made or submitted so far
    fired,          \* number of times the interval trigger has fired
    missed,         \* number of firings that submitted nothing
    signal,         \* the signal received: none, SIGINT or SIGTERM
    \* make_filename (sync.py)
    recording_id,   \* its first argument
    title,          \* its second argument
    filename        \* its result, <<>> before the call

syncvars == <<upstream, transcript, faults, changed, pc, cycle, stats, all_meetings, cursor, page,
              meetings, idx, transcript_data, drive_file, processed, disk, drive, sheet, fetches,
              requests, served, acts, prev>>
clientvars == <<now, request_times, stamps, call, events>>
mainvars == <<main, handlers, sched, instances, calls, fired, missed, signal>>
namevars == <<recording_id, title, filename>>

vars == <<syncvars, clientvars, mainvars, namevars>>

\* what run_sync's steps, as modelled here, leave alone
beyond == <<clientvars, mainvars, namevars>>

env == <<upstream, transcript, faults, changed>>
listing == <<all_meetings, cursor, page, requests, served>>
effects == <<processed, disk, drive, sheet, fetches>>

\* ------------------------------------------------------------ helpers
\* no client call is in progress
NoCall == [op |-> "none", at |-> "idle", attempt |-> 0, first |-> 0, responses |-> <<>>,
           sleeps |-> <<>>, result |-> "none"]
ZeroStats == [new |-> 0, skipped |-> 0, errors |-> 0]
NoActs == [new |-> {}, empty |-> {}]
NoPrev == [meetings |-> <<>>, new |-> {}, empty |-> {}]
EmptyDict == [x \in {} |-> [drive_file_id |-> NA, synced_at |-> 0]]

\* (a defect StateManager does not have: the ledger is never consulted)
is_processed_never(dict, rid) == FALSE

\* StateManager.is_processed
is_processed(dict, rid) == rid \in DOMAIN dict

\* (a defect StateManager does not have: the record is not kept in memory)
PutNothing(dict, rid, ref, at) == dict

\* (a defect StateManager does not have: the mapping is rebuilt from the new record)
PutReplaces(dict, rid, ref, at) == [x \in {rid} |-> [drive_file_id |-> ref, synced_at |-> at]]

\* the assignment of mark_processed: self.processed[str(recording_id)] = {...}
Put(dict, rid, ref, at) ==
    [x \in DOMAIN dict \cup {rid} |->
        IF x = rid THEN [drive_file_id |-> ref, synced_at |-> at] ELSE dict[x]]

\* json.dump(self.processed, f): the file's text, one entry
\* (key, drive_file_id, synced_at) per record
Dump(dict) == {<<x, dict[x].drive_file_id, dict[x].synced_at>> : x \in DOMAIN dict}

\* json.load(f): the mapping rebuilt from the entries of the text
Parse(text) ==
    [x \in {e[1] : e \in text} |->
        LET e == CHOOSE d \in text : d[1] = x
        IN  [drive_file_id |-> e[2], synced_at |-> e[3]]]

\* (a defect StateManager does not have: the file is written before the
\* mapping is assigned, so it lacks the newest record)
SaveBefore(dict, old, ok) ==
    IF ok THEN [valid |-> TRUE, data |-> Dump(processed)] ELSE [valid |-> FALSE, data |-> {}]

\* StateManager._save: the whole mapping is written; a failure is logged and
\* swallowed, and leaves a file that no longer parses (open(.., "w") truncates).
Save(dict, old, ok) ==
    IF ok THEN [valid |-> TRUE, data |-> Dump(dict)] ELSE [valid |-> FALSE, data |-> {}]

\* StateManager._load: a missing or unreadable file is an empty mapping
Load(file) == IF file.valid THEN Parse(file.data) ELSE EmptyDict

\* ------------------------------------------------- HTTP and the retry layer
\* A response is [status, body]; status 0 stands for a transport exception
\* (requests.ConnectionError and the like), which carries no response.
\* A body is carried as a sequence: <<>> when the attempt produced none.
NoBody == <<>>
Ok(answer) == [status |-> 200, body |-> <<answer>>]
Err(code) == [status |-> code, body |-> NoBody]
TransientStatuses == {0, 429, 500}

\* requests.get + raise_for_status: does this attempt raise a RequestException?
Raises(resp) == resp.status # 200

\* tenacity: retry(stop_after_attempt(3), retry_if_exception_type(RequestException)),
\* reraise left at its default: the last failure surfaces as RetryError.
RECURSIVE Retry(_, _)
Retry(resps, i) ==
    IF ~Raises(resps[i]) THEN [kind |-> "ok", body |-> resps[i].body, attempts |-> i]
    ELSE IF i >= MaxAttempts THEN [kind |-> "RetryError", body |-> NoBody, attempts |-> i]
    ELSE Retry(resps, i + 1)

\* what the attempts of one call may be answered: k transient failures of one
\* kind, then the server's own answer; all attempts fail only while the
\* environment still has a fault to spend
Attempts(answer) ==
    {[i \in 1..MaxAttempts |-> IF i <= k THEN Err(f) ELSE answer] :
        k \in 0..(IF faults < MaxFaults THEN MaxAttempts ELSE MaxAttempts - 1),
        f \in TransientStatuses}

\* whether a call's failure was one the environment injected
Injected(resps, r) == r.kind # "ok" /\ resps[MaxAttempts].status \in TransientStatuses

\* GET /meetings?cursor=c
ServePage(c) ==
    LET k == IF c = NoCursor THEN 1 ELSE c
    IN  Ok([meetings |-> upstream[k].items,
            next_cursor |-> IF upstream[k].next THEN k + 1 ELSE NoCursor])

\* GET /recordings/{rid}/transcript
ServeTranscript(rid) == IF transcript[rid] = "gone" THEN Err(410) ELSE Ok(transcript[rid])

\* how a call to a collaborator may end (TRUE: it returns, FALSE: it raises),
\* given that n more faults are being spent in the same step
CallOk(n) == IF faults + n < MaxFaults THEN BOOLEAN ELSE {TRUE}

\* ------------------------------------------------------------- initial
Pages == [items : SeqsUpTo(Ids \cup {NoId}, MaxPageLen), next : BOOLEAN]

WellFormed(ps) ==
    /\ Len(ps) >= 1
    /\ \A k \in 1..Len(ps) - 1 : ps[k].items # <<>> /\ ps[k].next
    /\ ps[Len(ps)].items = <<>> \/ ~ps[Len(ps)].next

\* the model is symmetric in the two ids: a listing names "a" before it names "b"
Canonical(ps) ==
    LET items == Concat(ps)
    IN  \A i \in 1..Len(items) : items[i] = "b" => \E j \in 1..i - 1 : items[j] = "a"

Listings == {ps \in SeqsUpTo(Pages, MaxPages) : WellFormed(ps) /\ Canonical(ps)}

\* the client has made no request yet
ClientOff ==
    /\ now = 0
    /\ request_times = <<>>
    /\ stamps = <<>>
    /\ call = NoCall
    /\ events = 0

\* the service's main() is not part of the run
MainOff ==
    /\ main = "none"
    /\ handlers = FALSE
    /\ sched = "none"
    /\ instances = 0
    /\ calls = 0
    /\ fired = 0
    /\ missed = 0
    /\ signal = "none"

\* make_filename is not part of the run
NamesOff ==
    /\ recording_id = <<>>
    /\ title = <<>>
    /\ filename = <<>>

\* the process starts idle, with the state file an earlier process left
InitProcess ==
    /\ disk = [valid |-> TRUE, data |-> Dump(processed)]
    /\ fetches = [x \in AllIds |-> 0]
    /\ changed = FALSE
    /\ pc = "idle"
    /\ cycle = 0
    /\ stats = ZeroStats
    /\ all_meetings = <<>>
    /\ cursor = NoCursor
    /\ page = 0
    /\ meetings = <<>>
    /\ idx = 0
    /\ transcript_data = ""
    /\ drive_file = NA
    /\ requests = <<>>
    /\ served = <<>>
    /\ acts = NoActs
    /\ prev = NoPrev

\* per id: unknown to the store with a ready or an unready transcript, or synced
InitKinds == {"new", "empty", "done"}

InitOf(kind) ==
    /\ upstream \in Listings
    /\ transcript = [x \in AllIds |-> IF x \in Ids /\ kind[x] = "empty" THEN "empty" ELSE "content"]
    /\ processed = [x \in {y \in Ids : kind[y] = "done"} |->
                      [drive_file_id |-> FileId(x, 1), synced_at |-> 0]]
    /\ drive = [x \in AllIds |-> IF x \in Ids /\ kind[x] = "done" THEN 1 ELSE 0]
    /\ sheet = [x \in AllIds |-> IF x \in Ids /\ kind[x] = "done" THEN 1 ELSE 0]
    /\ faults = 0
    /\ InitProcess
    /\ ClientOff /\ MainOff /\ NamesOff

Init == \E kind \in [Ids -> InitKinds] : InitOf(kind)

\* ------------------------------------------------------------- actions
Bump(st, k) == [st EXCEPT ![k] = @ + 1]

\* (a defect list_meetings does not have: each page replaces the result)
ExtendReplaces(all, ms) == ms

\* all_meetings.extend(meetings)
Extend(all, ms) == all \o ms

\* (a defect list_meetings does not have: the cursor is never followed)
LastPageAlways(data) == TRUE

\* if not next_cursor or not meetings: break
LastPage(data) == data.next_cursor = NoCursor \/ data.meetings = <<>>

\* (a defect list_meetings does not have: a failed page discards the earlier ones)
OnPageFailureNothing(all) == <<>>

\* except Exception: ... break, and then return all_meetings
OnPageFailure(all) == all

\* (a defect run_sync does not have: the transcript's length is not looked at)
HasContentAlways(body) == TRUE

\* has_content: the body is there, has a transcript field, and it is not empty
HasContent(body) == body # "empty"

\* the loop iteration is over (continue, or the end of the body)
Continue ==
    /\ pc' = "loop"
    /\ idx' = idx + 1
    /\ transcript_data' = ""
    /\ drive_file' = NA

\* (a defect run_sync does not have: no per-item handler, the exception ends the cycle)
FailedAborts ==
    /\ stats' = Bump(stats, "errors")
    /\ faults' = faults + 1
    /\ pc' = "idle"
    /\ UNCHANGED <<idx, transcript_data, drive_file>>

\* except Exception: stats["errors"] += 1; continue
Failed ==
    /\ stats' = Bump(stats, "errors")
    /\ faults' = faults + 1
    /\ Continue

\* (a defect run_sync does not have: an unavailable transcript is not recorded)
UnavailableNotMarked(rid, spent) ==
    /\ stats' = Bump(stats, "errors")
    /\ faults' = faults + spent
    /\ acts' = [acts EXCEPT !.empty = @ \ {rid}]
    /\ Continue
    /\ UNCHANGED <<processed, disk>>

\* except RetryError / except requests.HTTPError: mark with the sentinel, count
\* an error, continue
Unavailable(rid, spent) ==
    /\ \E saved \in CallOk(spent) :
         /\ processed' = Put(processed, rid, NA, cycle)
         /\ disk' = Save(processed', disk, saved)
         /\ faults' = faults + spent + (IF saved THEN 0 ELSE 1)
    /\ stats' = Bump(stats, "errors")
    /\ acts' = [acts EXCEPT !.empty = @ \ {rid}]
    /\ Continue

\* (a defect run_sync does not have: the counters live on across calls)
StaleStats == stats

\* stats = {"new": 0, "skipped": 0, "errors": 0}
FreshStats == ZeroStats

\* run_sync is called: counters reset, list_meetings starts
StartCycle ==
    /\ pc = "idle"
    /\ cycle < MaxCycles
    /\ cycle' = cycle + 1
    /\ stats' = FreshStats
    /\ all_meetings' = <<>>
    /\ cursor' = NoCursor
    /\ page' = 0
    /\ meetings' = <<>>
    /\ idx' = 0
    /\ pc' = "list"
    /\ requests' = <<>>
    /\ served' = <<>>
    /\ prev' = [meetings |-> meetings, new |-> acts.new, empty |-> acts.empty]
    /\ acts' = NoActs
    /\ UNCHANGED <<beyond, env, transcript_data, drive_file, effects>>

\* one turn of list_meetings' while loop, _fetch_page with its retries included
FetchPage ==
    /\ pc = "list"
    /\ \E resps \in Attempts(ServePage(cursor)) :
         LET r == Retry(resps, 1)
         IN  /\ page' = page + 1
             /\ requests' = Append(requests, cursor)
             /\ IF r.kind # "ok"
                THEN /\ pc' = "listed"
                     /\ faults' = faults + 1
                     /\ all_meetings' = OnPageFailure(all_meetings)
                     /\ UNCHANGED <<cursor, served>>
                ELSE /\ all_meetings' = Extend(all_meetings, r.body[1].meetings)
                     /\ served' = Append(served, r.body[1])
                     /\ faults' = faults
                     /\ IF LastPage(r.body[1])
                        THEN pc' = "listed" /\ cursor' = cursor
                        ELSE pc' = "list" /\ cursor' = r.body[1].next_cursor
    /\ UNCHANGED <<beyond, upstream, transcript, changed, cycle, stats, meetings, idx, transcript_data,
                   drive_file, effects, acts, prev>>

\* list_meetings has returned: run_sync returns on an empty listing, else loops
CheckMeetings ==
    /\ pc = "listed"
    /\ meetings' = all_meetings
    /\ IF all_meetings = <<>>
       THEN pc' = "idle" /\ idx' = 0
       ELSE pc' = "loop" /\ idx' = 1
    /\ all_meetings' = <<>>
    /\ cursor' = NoCursor
    /\ page' = 0
    /\ requests' = <<>>
    /\ served' = <<>>
    /\ UNCHANGED <<beyond, env, cycle, stats, transcript_data, drive_file, effects, acts, prev>>

\* the head of the for loop: an item without id and a processed item are passed over
NextItem ==
    /\ pc = "loop"
    /\ idx <= Len(meetings)
    /\ LET rid == meetings[idx]
       IN  IF rid = NoId
           THEN /\ Continue
                /\ UNCHANGED stats
           ELSE IF is_processed(processed, rid)
           THEN /\ stats' = Bump(stats, "skipped")
                /\ Continue
           ELSE /\ pc' = "fetch"
                /\ UNCHANGED <<stats, idx, transcript_data, drive_file>>
    /\ UNCHANGED <<beyond, env, cycle, listing, meetings, effects, acts, prev>>

\* get_transcript with its retries, and run_sync's handling of its outcome
FetchTranscript ==
    /\ pc = "fetch"
    /\ LET rid == meetings[idx]
       IN  \E resps \in Attempts(ServeTranscript(rid)) :
             LET r == Retry(resps, 1)
                 spent == IF Injected(resps, r) THEN 1 ELSE 0
             IN  /\ fetches' = [fetches EXCEPT ![rid] = @ + 1]
                 /\ IF r.kind \in {"RetryError", "HTTPError"}
                    THEN Unavailable(rid, spent)
                    ELSE IF ~HasContent(r.body[1])
                    THEN /\ stats' = Bump(stats, "errors")
                         /\ acts' = [acts EXCEPT !.empty = @ \cup {rid}]
                         /\ Continue
                         /\ UNCHANGED <<processed, disk, faults>>
                    ELSE /\ pc' = "upload"
                         /\ transcript_data' = r.body[1]
                         /\ acts' = [acts EXCEPT !.empty = @ \ {rid}]
                         /\ UNCHANGED <<processed, disk, stats, idx, drive_file, faults>>
    /\ UNCHANGED <<beyond, upstream, transcript, changed, cycle, listing, meetings, drive, sheet, prev>>

\* (a defect run_sync does not have: the record is written right after the
\* upload, before the row is appended)
UploadThenMark ==
    /\ pc = "upload"
    /\ LET rid == meetings[idx]
       IN  \E ok \in CallOk(0) :
             IF ok
             THEN /\ drive' = [drive EXCEPT ![rid] = @ + 1]
                  /\ drive_file' = FileId(rid, drive'[rid])
                  /\ pc' = "mark"
                  /\ UNCHANGED <<stats, idx, transcript_data, faults>>
             ELSE /\ Failed
                  /\ UNCHANGED drive
    /\ UNCHANGED <<beyond, upstream, transcript, changed, cycle, listing, meetings,
                   processed, disk, sheet, fetches, acts, prev>>

\* format_transcript, make_filename and upload_transcript_to_drive
Upload ==
    /\ pc = "upload"
    /\ LET rid == meetings[idx]
       IN  \E ok \in CallOk(0) :
             IF ok
             THEN /\ drive' = [drive EXCEPT ![rid] = @ + 1]
                  /\ drive_file' = FileId(rid, drive'[rid])
                  /\ pc' = "append"
                  /\ UNCHANGED <<stats, idx, transcript_data, faults>>
             ELSE /\ Failed
                  /\ UNCHANGED drive
    /\ UNCHANGED <<beyond, upstream, transcript, changed, cycle, listing, meetings,
                   processed, disk, sheet, fetches, acts, prev>>

\* extract_call_date and append_to_sheet
AppendRow ==
    /\ pc = "append"
    /\ LET rid == meetings[idx]
       IN  \E ok \in CallOk(0) :
             IF ok
             THEN /\ sheet' = [sheet EXCEPT ![rid] = @ + 1]
                  /\ pc' = "mark"
                  /\ UNCHANGED <<stats, idx, transcript_data, drive_file, faults>>
             ELSE /\ Failed
                  /\ UNCHANGED sheet
    /\ UNCHANGED <<beyond, upstream, transcript, changed, cycle, listing, meetings,
                   processed, disk, drive, fetches, acts, prev>>

\* (a defect run_sync does not have: a failed write of the state file raises,
\* and the item ends in the handler of the loop)
MarkDoneRaises ==
    /\ pc = "mark"
    /\ LET rid == meetings[idx]
       IN  \E saved \in CallOk(0) :
             /\ processed' = Put(processed, rid, drive_file, cycle)
             /\ disk' = Save(processed', disk, saved)
             /\ IF saved
                THEN /\ stats' = Bump(stats, "new")
                     /\ acts' = [acts EXCEPT !.new = @ \cup {rid}]
                     /\ faults' = faults
                     /\ Continue
                ELSE /\ Failed
                     /\ acts' = acts
    /\ UNCHANGED <<beyond, upstream, transcript, changed, cycle, listing, meetings,
                   drive, sheet, fetches, prev>>

\* mark_processed with the uploaded file's id, then stats["new"] += 1
MarkDone ==
    /\ pc = "mark"
    /\ LET rid == meetings[idx]
       IN  \E saved \in CallOk(0) :
             /\ processed' = Put(processed, rid, drive_file, cycle)
             /\ disk' = Save(processed', disk, saved)
             /\ faults' = faults + (IF saved THEN 0 ELSE 1)
             /\ stats' = Bump(stats, "new")
             /\ acts' = [acts EXCEPT !.new = @ \cup {rid}]
             /\ Continue
    /\ UNCHANGED <<beyond, upstream, transcript, changed, cycle, listing, meetings,
                   drive, sheet, fetches, prev>>

\* the for loop is exhausted: run_sync returns stats
Return ==
    /\ pc = "loop"
    /\ idx > Len(meetings)
    /\ pc' = "idle"
    /\ UNCHANGED <<beyond, env, cycle, stats, listing, meetings, idx, transcript_data, drive_file,
                   effects, acts, prev>>

\* upstream, between two cycles: a transcript that was not ready becomes ready
TranscriptReady ==
    /\ pc = "idle"
    /\ \E rid \in Ids :
         /\ transcript[rid] = "empty"
         /\ transcript' = [transcript EXCEPT ![rid] = "content"]
    /\ changed' = TRUE
    /\ UNCHANGED <<beyond, upstream, faults, pc, cycle, stats, listing, meetings, idx,
                   transcript_data, drive_file, effects, acts, prev>>

Next ==
    \/ StartCycle
    \/ FetchPage
    \/ CheckMeetings
    \/ NextItem
    \/ FetchTranscript
    \/ Upload
    \/ AppendRow
    \/ MarkDone
    \/ Return
    \/ TranscriptReady

Spec == Init /\ [][Next]_vars

TypeOK ==
    /\ pc \in {"idle", "list", "listed", "loop", "fetch", "upload", "append", "mark"}
    /\ cycle \in 0..MaxCycles
    /\ faults \in 0..MaxFaults
    /\ DOMAIN processed \subseteq AllIds


\* --------------------------------------------------- the mixed scenario
\* two pages: five items with a next cursor, then no items and no cursor
ScenarioListing ==
    << [items |-> <<"m1", "m2", "m3", "m4", "m5">>, next |-> TRUE],
       [items |-> <<>>, next |-> FALSE] >>

\* three of the five ids are in the store, one of the other two answers 410,
\* and nothing else fails
InitScenario ==
    \E stored \in SUBSET ScenarioIds, gone \in ScenarioIds :
        /\ Cardinality(stored) = 3
        /\ gone \notin stored
        /\ upstream = ScenarioListing
        /\ transcript = [x \in AllIds |-> IF x = gone THEN "gone" ELSE "content"]
        /\ processed = [x \in stored |-> [drive_file_id |-> FileId(x, 1), synced_at |-> 0]]
        /\ drive = [x \in AllIds |-> IF x \in stored THEN 1 ELSE 0]
        /\ sheet = [x \in AllIds |-> IF x \in stored THEN 1 ELSE 0]
        /\ faults = MaxFaults
        /\ InitProcess
        /\ ClientOff /\ MainOff /\ NamesOff

NextScenario ==
    \/ StartCycle
    \/ FetchPage
    \/ CheckMeetings
    \/ NextItem
    \/ FetchTranscript
    \/ Upload
    \/ AppendRow
    \/ MarkDone
    \/ Return

SpecScenario == InitScenario /\ [][NextScenario]_vars

\* ------------------------------------------------------- make_filename
\* A string is a sequence of one-character strings.
MaxIdLen == 3
MaxTitleLen == 3

IdChars == {"a", "1", "_"}
TitleChars == {"a", " ", "!"}
IdStrings == SeqsUpTo(IdChars, MaxIdLen) \ {<<>>}
Titles == SeqsUpTo(TitleChars, MaxTitleLen)

Untitled == <<"u", "n", "t", "i", "t", "l", "e", "d">>
Ext == <<".", "t", "x", "t">>

\* c.isalnum(), over the characters in use
IsAlnum(c) == c \in {"a", "1", "u", "n", "t", "i", "l", "e", "d", "x"}

\* "".join(c if c.isalnum() or c == " " else "" for c in title)
Kept(str) == SelectSeq(str, LAMBDA c : IsAlnum(c) \/ c = " ")

\* str.strip(), over strings whose only whitespace is the space
RECURSIVE Strip(_)
Strip(str) ==
    IF str = <<>> THEN <<>>
    ELSE IF Head(str) = " " THEN Strip(Tail(str))
    ELSE IF str[Len(str)] = " " THEN Strip(SubSeq(str, 1, Len(str) - 1))
    ELSE str

\* safe.replace(" ", "_")
Underscored(str) == [i \in 1..Len(str) |-> IF str[i] = " " THEN "_" ELSE str[i]]

\* (a defect make_filename does not have: no separator after the id)
make_filename_unseparated(rid, ttl) ==
    LET safe == Underscored(Strip(Kept(ttl)))
    IN  rid \o (IF safe = <<>> THEN Untitled ELSE safe) \o Ext

\* f"{recording_id}_{safe}.txt"
make_filename(rid, ttl) ==
    LET safe == Underscored(Strip(Kept(ttl)))
    IN  rid \o <<"_">> \o (IF safe = <<>> THEN Untitled ELSE safe) \o Ext

\* the sync engine is not part of the run
SyncOff ==
    /\ upstream = <<[items |-> <<>>, next |-> FALSE]>>
    /\ transcript = [x \in AllIds |-> "content"]
    /\ processed = EmptyDict
    /\ drive = [x \in AllIds |-> 0]
    /\ sheet = [x \in AllIds |-> 0]
    /\ faults = 0
    /\ InitProcess

InitNames ==
    /\ recording_id \in IdStrings
    /\ title \in Titles
    /\ filename = <<>>
    /\ SyncOff /\ ClientOff /\ MainOff

\* filename = make_filename(recording_id, title)
MakeFilename ==
    /\ filename = <<>>
    /\ filename' = make_filename(recording_id, title)
    /\ UNCHANGED <<recording_id, title, syncvars, clientvars, mainvars>>

NextNames == MakeFilename

SpecNames == InitNames /\ [][NextNames]_vars

\* ------------------------------------- the client: throttle and retries
\* One FathomClient making _fetch_page and get_transcript calls one after the
\* other, attempt by attempt. Time is in whole seconds.
MaxStamps == 52
MaxEvents == 1

\* window = 60.0
Window == 60
\* max_requests = 50
max_requests == 50
\* + 2.0 (safety)
Safety == 2
\* time.sleep(65)
LongSleep == 65
\* wait_exponential(multiplier=2, min=5, max=30)
WaitMultiplier == 2
WaitMin == 5
WaitMax == 30

TerminalStatuses == {404, 410}
IdleTimes == {1, Window}

\* (a defect _throttle does not have: pruning forgets every request)
PrunedAll(times, t) == <<>>

\* [t for t in self._request_times if now - t < window]
Pruned(times, t) == SelectSeq(times, LAMBDA x : t - x < Window)

\* (a defect _throttle does not have: it never sleeps)
SleepForNone(times, t) == 0

\* how long _throttle sleeps, given the pruned list: window - (now - oldest) + 2.0
\* when the list is full, else not at all
SleepFor(times, t) ==
    IF Len(times) >= max_requests THEN Window - (t - times[1]) + Safety ELSE 0

\* the list _throttle leaves behind when entered at time t, and the time it returns
AfterThrottle(times, t) ==
    LET pruned == Pruned(times, t)
        sleep_for == SleepFor(pruned, t)
        woke == IF sleep_for > 0 THEN t + sleep_for ELSE t
        kept == IF sleep_for > 0 THEN Pruned(pruned, woke) ELSE pruned
    IN  [times |-> Append(kept, woke), at |-> woke]

\* tenacity's wait_exponential: multiplier * 2^(attempt - 1), kept within [min, max]
wait_exponential(attempt) ==
    LET raw == WaitMultiplier * 2^(attempt - 1)
    IN  IF raw < WaitMin THEN WaitMin ELSE IF raw > WaitMax THEN WaitMax ELSE raw

\* (a defect the client does not have: an empty body counts as a failure)
retry_if_empty(resp) == Raises(resp) \/ resp.body = <<"empty">>

\* retry=retry_if_exception_type(requests.RequestException)
retry_if(resp) == Raises(resp)

\* (a defect the client does not have: a fourth attempt is allowed)
stop_after_four(attempt) == attempt >= MaxAttempts + 1

\* stop=stop_after_attempt(3)
stop_after_attempt(attempt) == attempt >= MaxAttempts

\* what the server may answer to the attempt in progress: its answer, or a
\* failure; a call that has failed before keeps failing the same way
Answers ==
    {Ok("content"), Ok("empty")} \cup
    (IF call.responses # <<>> THEN {call.responses[1]}
     ELSE IF events < MaxEvents THEN {Err(c) : c \in TransientStatuses \cup TerminalStatuses}
     ELSE {})

InitClient ==
    /\ ClientOff
    /\ SyncOff /\ MainOff /\ NamesOff

\* _fetch_page(params) or get_transcript(recording_id) is called
BeginCall ==
    /\ call.at = "idle"
    /\ Len(stamps) + MaxAttempts <= MaxStamps
    /\ \E op \in {"page", "detail"} :
         call' = [NoCall EXCEPT !.op = op, !.at = "throttle", !.attempt = 1,
                                !.first = Len(stamps)]
    /\ UNCHANGED <<now, request_times, stamps, events, syncvars, mainvars, namevars>>

\* self._throttle()
Throttle ==
    /\ call.at = "throttle"
    /\ LET after == AfterThrottle(request_times, now)
       IN  /\ request_times' = after.times
           /\ stamps' = Append(stamps, after.at)
           /\ now' = after.at
    /\ call' = [call EXCEPT !.at = "send"]
    /\ UNCHANGED <<events, syncvars, mainvars, namevars>>

\* requests.get, the 429 sleep, raise_for_status, and tenacity's decision
Respond ==
    /\ call.at = "send"
    /\ \E resp \in Answers :
         LET long == IF resp.status = 429 THEN <<LongSleep>> ELSE <<>>
             slept == IF resp.status = 429 THEN LongSleep ELSE 0
             answered == [call EXCEPT !.responses = Append(@, resp), !.sleeps = @ \o long]
         IN  /\ events' = IF Raises(resp) /\ call.responses = <<>> THEN events + 1 ELSE events
             /\ IF ~retry_if(resp)
                THEN /\ call' = [answered EXCEPT !.at = "done", !.result = "ok"]
                     /\ now' = now + slept
                ELSE IF stop_after_attempt(call.attempt)
                THEN /\ call' = [answered EXCEPT !.at = "done", !.result = "RetryError"]
                     /\ now' = now + slept
                ELSE /\ call' = [answered EXCEPT !.at = "throttle", !.attempt = @ + 1,
                                     !.sleeps = @ \o <<wait_exponential(call.attempt)>>]
                     /\ now' = now + slept + wait_exponential(call.attempt)
    /\ UNCHANGED <<request_times, stamps, syncvars, mainvars, namevars>>

\* the call returns to its caller, or raises
EndCall ==
    /\ call.at = "done"
    /\ call' = NoCall
    /\ UNCHANGED <<now, request_times, stamps, events, syncvars, mainvars, namevars>>

\* between two calls: the caller is busy elsewhere for a while
Idle ==
    /\ call.at = "idle"
    /\ events < MaxEvents
    /\ \E d \in IdleTimes : now' = now + d
    /\ events' = events + 1
    /\ UNCHANGED <<request_times, stamps, call, syncvars, mainvars, namevars>>

NextClient ==
    \/ BeginCall
    \/ Throttle
    \/ Respond
    \/ EndCall
    \/ Idle

SpecClient == InitClient /\ [][NextClient]_vars

\* ------------------------------------------------- the service: main()
\* The main thread runs run_sync once, then hands it to the scheduler as an
\* interval job; the scheduler's executor runs job instances on worker
\* threads. The cycle in progress is the run_sync machine above.
MaxTriggers == 2

\* max_instances=1
max_instances == 1

Signals == {"SIGINT", "SIGTERM"}

\* (a defect main does not have: the job is added without an instance limit)
CanSubmitAlways(n) == TRUE

\* the scheduler submits a job instance only below max_instances
CanSubmit(n) == n < max_instances

\* main() is entered with a usable API key; the store is empty and upstream
\* lists two recordings, each with a transcript that is ready or not
InitMain ==
    /\ main = "start"
    /\ handlers = FALSE
    /\ sched = "none"
    /\ instances = 0
    /\ calls = 0
    /\ fired = 0
    /\ missed = 0
    /\ signal = "none"
    /\ upstream = <<[items |-> <<"a", "b">>, next |-> FALSE]>>
    /\ \E ready \in SUBSET Ids :
         transcript = [x \in AllIds |-> IF x \in Ids \ ready THEN "empty" ELSE "content"]
    /\ processed = EmptyDict
    /\ drive = [x \in AllIds |-> 0]
    /\ sheet = [x \in AllIds |-> 0]
    /\ faults = MaxFaults
    /\ InitProcess
    /\ ClientOff /\ NamesOff

\* run_sync() on the main thread: "Run once immediately on startup"
CallInitial ==
    /\ main = "start"
    /\ main' = "initial"
    /\ calls' = calls + 1
    /\ UNCHANGED <<handlers, sched, instances, fired, missed, signal,
                   syncvars, clientvars, namevars>>

\* the initial run_sync has returned: BlockingScheduler(), add_job(...)
InitialDone ==
    /\ main = "initial"
    /\ pc = "idle"
    /\ cycle = calls
    /\ main' = "configured"
    /\ sched' = "created"
    /\ UNCHANGED <<handlers, instances, calls, fired, missed, signal,
                   syncvars, clientvars, namevars>>

\* signal.signal(SIGINT, shutdown); signal.signal(SIGTERM, shutdown)
InstallHandlers ==
    /\ main = "configured"
    /\ main' = "armed"
    /\ handlers' = TRUE
    /\ UNCHANGED <<sched, instances, calls, fired, missed, signal,
                   syncvars, clientvars, namevars>>

\* scheduler.start(): the main thread stays in the scheduler's loop
StartScheduler ==
    /\ main = "armed"
    /\ main' = "serving"
    /\ sched' = "running"
    /\ UNCHANGED <<handlers, instances, calls, fired, missed, signal,
                   syncvars, clientvars, namevars>>

\* the interval trigger fires: an instance of the job is submitted to the
\* executor, unless max_instances are running already
Trigger ==
    /\ sched = "running"
    /\ fired < MaxTriggers
    /\ calls < MaxCycles \/ instances > 0
    /\ fired' = fired + 1
    /\ IF CanSubmit(instances)
       THEN /\ instances' = instances + 1
            /\ calls' = calls + 1
            /\ missed' = missed
       ELSE /\ missed' = missed + 1
            /\ UNCHANGED <<instances, calls>>
    /\ UNCHANGED <<main, handlers, sched, signal, syncvars, clientvars, namevars>>

\* a job instance has run run_sync to its return: the executor lets it go
JobDone ==
    /\ instances > 0
    /\ pc = "idle"
    /\ cycle = calls
    /\ instances' = instances - 1
    /\ UNCHANGED <<main, handlers, sched, calls, fired, missed, signal,
                   syncvars, clientvars, namevars>>

\* SIGINT or SIGTERM arrives. Without the handlers the default action ends
\* the process where it stands (SIGTERM kills it, SIGINT raises
\* KeyboardInterrupt, which no handler in run_sync or main catches). With
\* them, shutdown() stops the scheduler without waiting and sys.exit(0)
\* takes the main thread out of scheduler.start(); a worker thread goes on.
Signal ==
    /\ signal = "none"
    /\ main \in {"initial", "configured", "armed", "serving"}
    /\ signal' \in Signals
    /\ IF handlers /\ sched = "running"
       THEN main' = "exited" /\ sched' = "stopped"
       ELSE main' = "dead" /\ sched' = sched
    /\ UNCHANGED <<handlers, instances, calls, fired, missed, syncvars, clientvars, namevars>>

\* run_sync is entered: by main's initial call, or by a worker for a submitted instance
RunStart ==
    /\ main # "dead"
    /\ cycle < calls
    /\ StartCycle

\* run_sync goes on, on the thread that called it
RunStep ==
    /\ main # "dead"
    /\ \/ FetchPage
       \/ CheckMeetings
       \/ NextItem
       \/ FetchTranscript
       \/ Upload
       \/ AppendRow
       \/ MarkDone
       \/ Return

NextMain ==
    \/ CallInitial
    \/ InitialDone
    \/ InstallHandlers
    \/ StartScheduler
    \/ Trigger
    \/ JobDone
    \/ Signal
    \/ RunStart
    \/ RunStep

SpecMain == InitMain /\ [][NextMain]_vars

\* ------------------------- run_sync with get_transcript attempt by attempt
\* The cycle of run_sync as above, except that the get_transcript call of an
\* item is made by the client one attempt at a time: _throttle, the request,
\* the sleep after a 429, the backoff. The listing is one page of two items.
InitDetail ==
    /\ upstream = <<[items |-> <<"a", "b">>, next |-> FALSE]>>
    /\ transcript \in [AllIds -> {"content", "empty"}]
    /\ \A x \in ScenarioIds : transcript[x] = "content"
    /\ processed = EmptyDict
    /\ drive = [x \in AllIds |-> 0]
    /\ sheet = [x \in AllIds |-> 0]
    /\ faults = 0
    /\ InitProcess
    /\ ClientOff /\ MainOff /\ NamesOff

\* transcript_data = fathom_client.get_transcript(recording_id): the call begins
GetTranscript ==
    /\ pc = "fetch"
    /\ call.at = "idle"
    /\ call' = [NoCall EXCEPT !.op = "detail", !.at = "throttle", !.attempt = 1,
                              !.first = Len(stamps)]
    /\ UNCHANGED <<now, request_times, stamps, events, syncvars, mainvars, namevars>>

\* an attempt of the call is answered: by a failure, while the environment has
\* a fault to spend, or by the transcript the server holds for the item
RespondDetail ==
    /\ pc = "fetch"
    /\ Respond
    /\ LET resp == call'.responses[Len(call'.responses)]
       IN  IF Raises(resp) THEN faults < MaxFaults
           ELSE resp = ServeTranscript(meetings[idx])

\* the call is over: run_sync's except RetryError, has_content, or on to the upload
HandleTranscript ==
    /\ pc = "fetch"
    /\ call.at = "done"
    /\ LET rid == meetings[idx]
           r == [kind |-> call.result]
           spent == IF Injected(call.responses, r) THEN 1 ELSE 0
           body == call.responses[Len(call.responses)].body
       IN  /\ fetches' = [fetches EXCEPT ![rid] = @ + 1]
           /\ IF r.kind \in {"RetryError", "HTTPError"}
              THEN Unavailable(rid, spent)
              ELSE IF ~HasContent(body[1])
              THEN /\ stats' = Bump(stats, "errors")
                   /\ acts' = [acts EXCEPT !.empty = @ \cup {rid}]
                   /\ Continue
                   /\ UNCHANGED <<processed, disk, faults>>
              ELSE /\ pc' = "upload"
                   /\ transcript_data' = body[1]
                   /\ acts' = [acts EXCEPT !.empty = @ \ {rid}]
                   /\ UNCHANGED <<processed, disk, stats, idx, drive_file, faults>>
    /\ call' = NoCall
    /\ UNCHANGED <<now, request_times, stamps, events, mainvars, namevars>>
    /\ UNCHANGED <<upstream, transcript, changed, cycle, listing, meetings, drive, sheet, prev>>

NextDetail ==
    \/ StartCycle
    \/ FetchPage
    \/ CheckMeetings
    \/ NextItem
    \/ GetTranscript
    \/ Throttle
    \/ RespondDetail
    \/ HandleTranscript
    \/ Upload
    \/ AppendRow
    \/ MarkDone
    \/ Return
    \/ TranscriptReady

SpecDetail == InitDetail /\ [][NextDetail]_vars

\* ================================================================ claims
LoopPcs == {"loop", "fetch", "upload", "append", "mark"}
WorkPcs == {"fetch", "upload", "append", "mark"}
AllItems == Concat(upstream)

\* C1: a second run_sync in the same process, with the same listing, the same
\* transcripts upstream and no failing step in either run, counts nothing new:
\* every id counted new by the first run is skipped, never reaches the fetch,
\* upload, append or mark step again, and keeps its one file and its one row.
C1_Idempotent ==
    (cycle >= 2 /\ faults = 0 /\ ~changed /\ pc \in LoopPcs \cup {"idle"}
        /\ meetings = prev.meetings) =>
        /\ stats.new = 0
        /\ acts.new = {}
        /\ \A id \in prev.new :
            /\ id \in DOMAIN processed
            /\ drive[id] = 1
            /\ sheet[id] = 1
            /\ pc \in WorkPcs => meetings[idx] # id
        /\ pc = "idle" =>
            stats.skipped >= Cardinality({i \in 1..Len(meetings) : meetings[i] \in prev.new})

C1_Witness ==
    /\ pc = "idle" /\ cycle = 2 /\ faults = 0 /\ ~changed
    /\ prev.new # {}
    /\ meetings = prev.meetings
    /\ stats.new = 0
    /\ stats.skipped >= 1

\* C2: whatever fails, no recording id is uploaded more than once and none gets
\* more than one index row (stated for listings that name each id once).
C2_ExactlyOnce ==
    (\A i, j \in 1..Len(AllItems) : i # j /\ AllItems[i] # NoId => AllItems[i] # AllItems[j])
        => \A id \in AllIds : drive[id] <= 1 /\ sheet[id] <= 1

\* C3: a step never touches an id that has a record: no fetch, no upload, no
\* row, no rewrite of its record; and the loop passes such an item by counting
\* it skipped, and nothing else.
C3_PureSkip ==
    [][ /\ \A id \in DOMAIN processed :
            /\ id \in DOMAIN processed'
            /\ processed'[id] = processed[id]
            /\ fetches'[id] = fetches[id]
            /\ drive'[id] = drive[id]
            /\ sheet'[id] = sheet[id]
        /\ (pc = "loop" /\ idx <= Len(meetings) /\ meetings[idx] \in DOMAIN processed) =>
            /\ stats' = [stats EXCEPT !.skipped = @ + 1]
            /\ pc' = "loop"
            /\ idx' = idx + 1
      ]_vars

\* an id given the sentinel in the first cycle has been passed by in the second
C3_Witness ==
    /\ pc = "idle" /\ cycle = 2
    /\ \E i \in 1..Len(meetings) :
        /\ meetings[i] \in DOMAIN processed
        /\ processed[meetings[i]] = [drive_file_id |-> NA, synced_at |-> 1]
        /\ fetches[meetings[i]] = 1
    /\ stats.skipped >= 1

\* C4: a detail fetch that ends in retries-exhausted (or an HTTP error) records
\* the id with the sentinel, adds exactly one error, uploads and appends
\* nothing, and the loop moves on to the next item.
C4_UnavailableIsMarked ==
    [][ (pc = "fetch" /\ (faults' # faults \/ transcript[meetings[idx]] = "gone")) =>
            /\ meetings[idx] \in DOMAIN processed'
            /\ processed'[meetings[idx]].drive_file_id = NA
            /\ stats' = [stats EXCEPT !.errors = @ + 1]
            /\ drive' = drive
            /\ sheet' = sheet
            /\ pc' = "loop"
            /\ idx' = idx + 1
      ]_vars

C4_Witness ==
    /\ pc = "loop" /\ idx = 2 /\ Len(meetings) >= 2
    /\ meetings[1] \in DOMAIN processed
    /\ processed[meetings[1]] = [drive_file_id |-> NA, synced_at |-> cycle]
    /\ stats = [new |-> 0, skipped |-> 0, errors |-> 1]
    /\ drive[meetings[1]] = 0 /\ sheet[meetings[1]] = 0

\* C5: a fetch that succeeds with an empty transcript counts one error, writes
\* nothing to the store, to Drive or to the Sheet; the id is not in the store
\* when the cycle ends; and an unprocessed id is fetched whenever the loop
\* reaches it, so the next cycle fetches it again.
C5_EmptyIsRetried ==
    [][ /\ (pc = "fetch" /\ transcript[meetings[idx]] = "empty" /\ faults' = faults) =>
            /\ stats' = [stats EXCEPT !.errors = @ + 1]
            /\ UNCHANGED <<processed, disk, drive, sheet>>
            /\ pc' = "loop"
            /\ idx' = idx + 1
        /\ pc' = "idle" => acts'.empty \cap DOMAIN processed' = {}
        /\ (pc = "loop" /\ idx <= Len(meetings) /\ meetings[idx] # NoId
                /\ meetings[idx] \notin DOMAIN processed) =>
            pc' = "fetch" /\ idx' = idx
        /\ pc = "fetch" => fetches'[meetings[idx]] = fetches[meetings[idx]] + 1
      ]_vars

\* the same id came back empty in two consecutive cycles and was fetched in both
C5_Witness ==
    /\ pc = "idle" /\ cycle = 2
    /\ \E id \in prev.empty \cap acts.empty :
        /\ fetches[id] = 2
        /\ id \notin DOMAIN processed
        /\ drive[id] = 0 /\ sheet[id] = 0
    /\ stats.errors >= 1

\* C6: an exception in the fetch, format, upload or append of one item adds one
\* error and the loop goes on with the next item; the loop is left only by
\* running off the end of the listing, and then the counters are returned.
C6_FailureIsIsolated ==
    [][ /\ (pc \in {"fetch", "upload", "append"} /\ faults' # faults) =>
            /\ stats' = [stats EXCEPT !.errors = @ + 1]
            /\ pc' = "loop"
            /\ idx' = idx + 1
        /\ pc \in LoopPcs =>
            \/ pc' \in LoopPcs /\ meetings' = meetings /\ idx' \in {idx, idx + 1}
            \/ pc' = "idle" /\ idx = Len(meetings) + 1 /\ stats' = stats
        /\ (pc = "loop" /\ idx <= Len(meetings)) => pc' \in {"loop", "fetch"}
      ]_vars

\* the first item failed in an upload or append, the second was synced after it
C6_Witness ==
    /\ pc = "idle" /\ cycle = 1 /\ ~changed
    /\ Len(meetings) = 2
    /\ meetings[1] # NoId /\ meetings[1] \notin DOMAIN processed
    /\ transcript[meetings[1]] = "content"
    /\ meetings[2] \in DOMAIN processed
    /\ processed[meetings[2]] = [drive_file_id |-> FileId(meetings[2], 1), synced_at |-> 1]
    /\ stats = [new |-> 1, skipped |-> 0, errors |-> 1]

\* C7: the mixed scenario returns {new: 1, skipped: 3, errors: 1}; the item with
\* a transcript is uploaded once, gets one row and is marked with the file's
\* id; the item answering 410 is marked with the sentinel, with no upload and
\* no row; the three stored items are not touched.
C7_Scenario ==
    (pc = "idle" /\ cycle = 1) =>
        /\ stats = [new |-> 1, skipped |-> 3, errors |-> 1]
        /\ DOMAIN processed = ScenarioIds
        /\ \A x \in ScenarioIds :
            CASE processed[x].synced_at = 0 ->
                    /\ processed[x].drive_file_id = FileId(x, 1)
                    /\ fetches[x] = 0 /\ drive[x] = 1 /\ sheet[x] = 1
              [] transcript[x] = "gone" ->
                    /\ processed[x] = [drive_file_id |-> NA, synced_at |-> 1]
                    /\ fetches[x] = 1 /\ drive[x] = 0 /\ sheet[x] = 0
              [] OTHER ->
                    /\ processed[x] = [drive_file_id |-> FileId(x, 1), synced_at |-> 1]
                    /\ fetches[x] = 1 /\ drive[x] = 1 /\ sheet[x] = 1

C7_Witness ==
    /\ pc = "idle" /\ cycle = 1
    /\ upstream = ScenarioListing
    /\ meetings = <<"m1", "m2", "m3", "m4", "m5">>
    /\ Cardinality({x \in ScenarioIds : processed[x].synced_at = 0}) = 3
    /\ \E x \in ScenarioIds : transcript[x] = "gone" /\ processed[x].drive_file_id = NA
    /\ \E x \in ScenarioIds : processed[x].synced_at = 1 /\ drive[x] = 1
    /\ stats.new = 1

\* C8: when the first page fails on every attempt, run_sync returns all-zero
\* counters; and from the call of run_sync to the return of list_meetings no
\* step touches the store, the state file, Drive, the Sheet or a transcript.
C8_ListingFailure ==
    [][ /\ pc \in {"idle", "list", "listed"} => UNCHANGED effects
        /\ (pc = "listed" /\ served = <<>>) =>
            /\ pc' = "idle"
            /\ stats' = ZeroStats
            /\ meetings' = <<>>
      ]_vars

\* the second cycle's listing failed outright after a first cycle that synced
C8_Witness ==
    /\ pc = "idle" /\ cycle = 2
    /\ upstream[1].items # <<>>
    /\ meetings = <<>>
    /\ prev.new # {}
    /\ faults >= 1
    /\ stats = ZeroStats

\* C9: over a well-formed sequence of pages list_meetings makes one _fetch_page
\* call per page, the first without cursor and each next one with the cursor
\* the previous page returned, never more calls than there are pages, and when
\* no page fails it returns the pages' items concatenated in page order.
C9_Pagination ==
    /\ WellFormed(upstream)
    /\ pc = "list" => page < Len(upstream)
    /\ pc \in {"list", "listed"} =>
        /\ Len(requests) = page
        /\ \A k \in 1..Len(requests) :
            requests[k] = IF k = 1 THEN NoCursor ELSE served[k - 1].next_cursor
        /\ \A k \in 1..Len(served) : served[k].meetings = upstream[k].items
    /\ (pc = "listed" /\ Len(served) = Len(requests)) =>
        /\ Len(requests) = Len(upstream)
        /\ all_meetings = AllItems

C9_Witness ==
    /\ pc = "listed"
    /\ Len(served) = 2 /\ Len(requests) = 2
    /\ upstream[2].items # <<>>
    /\ all_meetings = upstream[1].items \o upstream[2].items

\* C10: when the k-th page fails after its retries, list_meetings returns the
\* items of pages 1..k-1 in order, and run_sync takes that result as its
\* listing: it loops over it from the first item, or returns if it is empty.
C10_PartialListing ==
    [][ /\ (pc' = "listed" /\ Len(requests') = Len(served') + 1) =>
            all_meetings' = Concat(SubSeq(upstream, 1, Len(requests') - 1))
        /\ pc = "listed" =>
            /\ meetings' = all_meetings
            /\ stats' = stats
            /\ IF all_meetings = <<>> THEN pc' = "idle" ELSE pc' = "loop" /\ idx' = 1
      ]_vars

\* page 2 failed: the cycle ran over page 1 alone and synced from it
C10_Witness ==
    /\ pc = "idle" /\ cycle = 1
    /\ Len(upstream) = 2 /\ upstream[2].items # <<>>
    /\ meetings = upstream[1].items
    /\ faults = 1
    /\ stats.new >= 1
    /\ stats.new + stats.skipped + stats.errors = Len(meetings)

\* C14: an item without id is passed by as a skipped item: skipped goes up by
\* one, and there is no fetch, no upload, no row and no write to the store.
C14_EmptyIdSkipped ==
    [][ (pc = "loop" /\ idx <= Len(meetings) /\ meetings[idx] = NoId) =>
            /\ stats' = [stats EXCEPT !.skipped = @ + 1]
            /\ UNCHANGED effects
            /\ pc' = "loop"
            /\ idx' = idx + 1
      ]_vars

\* C15: the in-memory mapping only grows: no step removes an id or changes a
\* record that is there, and a step that changes the mapping adds exactly the
\* current item's id, which was not there; also for listings that name an id
\* more than once.
C15_AppendOnly ==
    [][ /\ DOMAIN processed \subseteq DOMAIN processed'
        /\ \A id \in DOMAIN processed : processed'[id] = processed[id]
        /\ processed' # processed =>
            /\ pc \in {"fetch", "mark"}
            /\ meetings[idx] \notin DOMAIN processed
            /\ DOMAIN processed' = DOMAIN processed \cup {meetings[idx]}
      ]_vars

\* a listing named the same id twice: it was written once and then skipped,
\* beside a record that was there before
C15_Witness ==
    /\ pc = "idle" /\ cycle = 1
    /\ \E i, j \in 1..Len(meetings) :
        /\ i < j
        /\ meetings[i] = meetings[j]
        /\ meetings[i] \in DOMAIN processed
        /\ processed[meetings[i]].synced_at = 1
    /\ \E id \in DOMAIN processed : processed[id].synced_at = 0
    /\ stats.skipped >= 1

\* C16: when the write of the state file fails inside mark_processed, the
\* item keeps its outcome (new after a sync, error after an unavailable
\* transcript), the loop goes on with the next item, the id stays in the
\* in-memory mapping from then on, and an id in the mapping is skipped even
\* while the file is unreadable.
C16_FailedPersist ==
    [][ /\ (pc = "mark" /\ ~disk'.valid) =>
            /\ meetings[idx] \in DOMAIN processed'
            /\ stats' = [stats EXCEPT !.new = @ + 1]
            /\ pc' = "loop"
            /\ idx' = idx + 1
        /\ (pc = "fetch" /\ disk' # disk /\ ~disk'.valid) =>
            /\ meetings[idx] \in DOMAIN processed'
            /\ stats' = [stats EXCEPT !.errors = @ + 1]
            /\ pc' = "loop"
            /\ idx' = idx + 1
        /\ (~disk.valid) => DOMAIN processed \subseteq DOMAIN processed'
        /\ (~disk.valid /\ pc = "loop" /\ idx <= Len(meetings)
                /\ meetings[idx] \in DOMAIN processed) =>
            /\ stats' = [stats EXCEPT !.skipped = @ + 1]
            /\ pc' = "loop"
            /\ idx' = idx + 1
            /\ UNCHANGED effects
      ]_vars

\* the write failed for an item synced in the first cycle; the second cycle,
\* in the same process, has skipped it, the file still unreadable
C16_Witness ==
    /\ pc = "idle" /\ cycle = 2
    /\ ~disk.valid
    /\ prev.new # {}
    /\ prev.new \subseteq DOMAIN processed
    /\ meetings = prev.meetings
    /\ stats.new = 0 /\ stats.errors = 0
    /\ stats.skipped >= 1

\* C17: whenever the latest write of the state file succeeded, the file holds
\* the whole in-memory mapping, and loading it gives a mapping in which
\* is_processed answers as the in-memory one does, for every id.
C17_RoundTrip ==
    disk.valid =>
        /\ disk.data = Dump(processed)
        /\ Load(disk) = processed
        /\ \A x \in AllIds : is_processed(Load(disk), x) <=> is_processed(processed, x)

\* two items synced in one cycle: the write after the first failed, the write
\* after the second succeeded and carries both records
C17_Witness ==
    /\ pc = "idle" /\ cycle = 1
    /\ Len(upstream) = 1
    /\ stats = [new |-> 2, skipped |-> 0, errors |-> 0]
    /\ faults = 1
    /\ disk.valid
    /\ Cardinality(disk.data) = 2
    /\ Cardinality(DOMAIN Load(disk)) = 2

\* C20 (as claimed): the name made for one id and title differs from the name
\* made for any other id, whatever the titles.
C20_CollisionFree ==
    filename # <<>> =>
        \A i2 \in IdStrings, t2 \in Titles :
            i2 # recording_id => make_filename(i2, t2) # filename

\* C20 (amended): for ids without an underscore, the name made for one id and
\* title differs from the name made for any other such id, whatever the
\* titles; and the name is the id, an underscore, a body and ".txt", where the
\* body is "untitled" if the title has no alphanumeric character and else
\* the title's alphanumeric characters in order, with underscores only
\* between them, one for each space that stood there.
C20_CollisionFreePlainIds ==
    filename # <<>> =>
        LET plain(i) == \A k \in 1..Len(i) : i[k] # "_"
            n == Len(recording_id)
            body == SubSeq(filename, n + 2, Len(filename) - Len(Ext))
            alnums(str) == SelectSeq(str, IsAlnum)
            first == CHOOSE k \in 1..Len(title) :
                        IsAlnum(title[k]) /\ \A j \in 1..k - 1 : ~IsAlnum(title[j])
            last == CHOOSE k \in 1..Len(title) :
                        IsAlnum(title[k]) /\ \A j \in k + 1..Len(title) : ~IsAlnum(title[j])
        IN  /\ plain(recording_id) =>
                \A i2 \in IdStrings, t2 \in Titles :
                    (plain(i2) /\ i2 # recording_id) => make_filename(i2, t2) # filename
            /\ \A t2 \in Titles : t2 # title =>
                    (make_filename(recording_id, t2) = filename
                        <=> Underscored(Strip(Kept(t2))) = Underscored(Strip(Kept(title))))
            /\ SubSeq(filename, 1, n + 1) = recording_id \o <<"_">>
            /\ SubSeq(filename, Len(filename) - Len(Ext) + 1, Len(filename)) = Ext
            /\ IF alnums(title) = <<>>
               THEN body = Untitled
               ELSE /\ alnums(body) = alnums(title)
                    /\ \A k \in 1..Len(body) : IsAlnum(body[k]) \/ body[k] = "_"
                    /\ body[1] # "_" /\ body[Len(body)] # "_"
                    /\ Cardinality({k \in 1..Len(body) : body[k] = "_"})
                         = Cardinality({k \in first..last : title[k] = " "})

\* a title with a stripped character, an inner space and an outer space
C20_Witness ==
    /\ recording_id = <<"1", "a">>
    /\ title = <<"!", " ", "a">>
    /\ filename = <<"1", "a", "_", "a", ".", "t", "x", "t">>

\* C11 (as claimed): N consecutive throttle calls span at least (N-1) times a
\* minimum spacing; here with the least spacing there could be, one second.
C11_MinSpacing ==
    \A i, j \in 1..Len(stamps) : i < j => stamps[j] - stamps[i] >= j - i

\* C11 (amended): the limiter spaces calls by the window, not one by one: the
\* timestamps never go back, and N consecutive throttle calls span at least
\* floor((N-1) / 50) * 60 seconds, i.e. a call and the 50th call after it are
\* at least 60 seconds apart.
\* (Timestamps are only ever appended, so it is stated for the newest one.)
C11_WindowSpacing ==
    LET j == Len(stamps)
    IN  \A i \in 1..j - 1 :
            /\ stamps[j] >= stamps[i]
            /\ stamps[j] - stamps[i] >= ((j - i) \div max_requests) * Window

\* 50 calls at once, and the 51st held back until the first has left the window
C11_Witness ==
    /\ Len(stamps) = max_requests + 1
    /\ stamps[max_requests] = stamps[1]
    /\ stamps[max_requests + 1] = stamps[1] + Window + Safety
    /\ call.at = "send"

\* C12: a 404 or 410 answer to a detail request ends the call: it is the
\* call's last request, and the call's outcome is an HTTP error, not the
\* retries-exhausted condition.
C12_TerminalError ==
    call.op = "detail" =>
        \A k \in 1..Len(call.responses) :
            call.responses[k].status \in TerminalStatuses =>
                /\ k = 1
                /\ call.at = "done"
                /\ call.result = "HTTPError"

\* C13: a call makes at most 3 requests, each behind its own _throttle; every
\* response that was followed by another attempt was a failure, so a success,
\* empty or not, is the call's last response; a call ends ok on a success and
\* in RetryError exactly when 3 attempts have failed.
C13_AttemptBudget ==
    LET n == Len(call.responses)
        sent == Len(stamps) - call.first
    IN  /\ call.attempt <= MaxAttempts
        /\ n <= MaxAttempts
        /\ call.at \in {"throttle", "done"} => sent = n
        /\ call.at = "send" => sent = n + 1 /\ call.attempt = n + 1
        /\ call.at = "throttle" => call.attempt = n + 1
        /\ \A k \in 1..n - 1 : Raises(call.responses[k])
        /\ call.at \in {"throttle", "send"} => \A k \in 1..n : Raises(call.responses[k])
        /\ call.at = "done" =>
            /\ n >= 1
            /\ call.result = "ok" <=> ~Raises(call.responses[n])
            /\ call.result = "RetryError" <=>
                    (n = MaxAttempts /\ \A k \in 1..n : Raises(call.responses[k]))
            /\ call.result = Retry(call.responses, 1).kind
            /\ n = Retry(call.responses, 1).attempts

\* a call that failed twice and then got an empty answer: it ended there
C13_Witness ==
    /\ call.at = "done"
    /\ call.result = "ok"
    /\ Len(call.responses) = MaxAttempts
    /\ call.responses[MaxAttempts] = Ok("empty")
    /\ Len(stamps) = call.first + MaxAttempts

\* C18: at most one run_sync is in flight: the initial run is over before the
\* scheduler exists, the executor never holds two instances, a cycle that is
\* running in a live process is the one instance in flight, and every firing of the trigger
\* either submitted one instance or, an instance being in flight, nothing.
C18_SingleFlight ==
    LET inflight == instances + (IF main = "initial" THEN 1 ELSE 0)
    IN  /\ inflight <= 1
        /\ calls <= cycle + 1
        /\ (pc # "idle" /\ main # "dead") => inflight = 1
        /\ main \in {"start", "initial"} => sched = "none" /\ instances = 0 /\ fired = 0
        /\ sched # "none" => cycle >= 1
        /\ main # "start" => calls = 1 + fired - missed

\* the trigger fired while the scheduled cycle was running, and was dropped
C18_Witness ==
    /\ main = "serving"
    /\ instances = 1
    /\ pc = "fetch"
    /\ cycle = 2
    /\ fired = 2
    /\ missed = 1

\* C19: once a signal has been received nothing more is scheduled, and the
\* process is never ended with a cycle in mid-flight.
C19_GracefulStop ==
    signal # "none" =>
        /\ sched # "running"
        /\ main = "dead" => pc = "idle"

\* C21: within an item the steps come in the order fetch, upload, append,
\* mark, each for the same item, and the loop moves to the next item only
\* from the loop head, a failed step or the mark; a record with a reference
\* other than "N/A" is written only by the mark step, with the id of a file
\* uploaded for that item and after a row was appended for it; so every id
\* stored with such a reference has a file and a row.
C21_StepOrder ==
    /\ [](\A id \in DOMAIN processed :
            processed[id].drive_file_id # NA => drive[id] >= 1 /\ sheet[id] >= 1)
    /\ [][ /\ pc' = "fetch" => pc = "loop" /\ idx' = idx
           /\ pc' = "upload" => pc = "fetch" /\ idx' = idx /\ fetches'[meetings[idx]] = fetches[meetings[idx]] + 1
           /\ pc' = "append" => pc = "upload" /\ idx' = idx /\ drive'[meetings[idx]] = drive[meetings[idx]] + 1
           /\ pc' = "mark" => pc = "append" /\ idx' = idx /\ sheet'[meetings[idx]] = sheet[meetings[idx]] + 1
           /\ idx' # idx => pc' \in {"loop", "list", "idle"}
           /\ (pc \in WorkPcs /\ pc' = "loop") => idx' = idx + 1
           /\ \A id \in DOMAIN processed' :
                (id \notin DOMAIN processed /\ processed'[id].drive_file_id # NA) =>
                    /\ pc = "mark"
                    /\ id = meetings[idx]
                    /\ processed'[id].drive_file_id = FileId(id, drive[id])
                    /\ drive[id] >= 1
                    /\ sheet[id] >= 1
         ]_vars

\* the first item has gone through all four steps, the second is being fetched
C21_Witness ==
    /\ pc = "fetch" /\ idx = 2 /\ cycle = 1
    /\ meetings[1] # meetings[2]
    /\ meetings[1] \in DOMAIN processed
    /\ processed[meetings[1]] = [drive_file_id |-> FileId(meetings[1], 1), synced_at |-> 1]
    /\ fetches[meetings[1]] = 1 /\ drive[meetings[1]] = 1 /\ sheet[meetings[1]] = 1
    /\ fetches[meetings[2]] = 0
    /\ stats.new = 1

\* C23: when run_sync returns, the three counters add up to the number of
\* items in the listing it went through.
C23_CounterAccounting ==
    (pc = "idle" /\ cycle >= 1) =>
        stats.new + stats.skipped + stats.errors = Len(meetings)

\* C22: every HTTP request, retries included, comes right after a _throttle
\* call of its own, which records the time it returns at; the first call ever
\* returns at once; and no 60-second window holds more than 50 recorded
\* timestamps. A window is read as _throttle reads it, now - t < 60: a
\* timestamp exactly 60 seconds old has left it.
\* (Timestamps never go back and are only appended, so the fullest window that
\* ends at a timestamp is counted when that timestamp is the newest.)
C22_SlidingWindow ==
    /\ [](LET j == Len(stamps)
          IN  Cardinality({i \in 1..j : stamps[j] - stamps[i] < Window}) <= max_requests)
    /\ [][ /\ Len(call'.responses) > Len(call.responses) =>
                /\ call.at = "send"
                /\ stamps' = stamps
                /\ Len(stamps) = call.first + Len(call'.responses)
           /\ call'.at = "send" =>
                /\ call.at = "throttle"
                /\ Len(stamps') = Len(stamps) + 1
                /\ stamps'[Len(stamps')] = now'
                /\ request_times'[Len(request_times')] = now'
                /\ now' >= now
           /\ stamps' # stamps => call.at = "throttle" /\ call'.at = "send"
           /\ (stamps = <<>> /\ stamps' # <<>>) => now' = now
         ]_vars

\* a call that came when 49 requests had just been made: its first request is
\* the 50th of the window, its second waits for the window to pass, its third
\* goes out after the backoff alone
C22_Witness ==
    /\ call.at = "done"
    /\ call.result = "RetryError"
    /\ call.first = max_requests - 1
    /\ Len(stamps) = max_requests + 2
    /\ stamps[max_requests] = stamps[1]
    /\ stamps[max_requests + 1] = stamps[1] + Window + Safety
    /\ stamps[max_requests + 2] = stamps[max_requests + 1] + WaitMin
    /\ Len(request_times) = 2

\* C24: a detail call answered 429 on every attempt sleeps the long delay after
\* each 429 (and the backoff between attempts), makes 3 requests and no more,
\* and ends in RetryError at least 3 * 65 + 2 * 5 seconds after its first
\* request; run_sync then records the item with "N/A", counts one error and
\* moves on without a file or a row; and an id that is in the store is never
\* the object of a get_transcript call again, in this cycle or a later one.
C24_Exhausted429 ==
    /\ [](LET n == Len(call.responses)
          IN  (call.op = "detail" /\ n >= 1 /\ \A k \in 1..n : call.responses[k].status = 429) =>
                /\ n <= MaxAttempts
                /\ \A k \in 1..n : call.sleeps[2 * k - 1] = LongSleep
                /\ \A k \in 1..n - 1 : call.sleeps[2 * k] = wait_exponential(k)
                /\ IF n = MaxAttempts
                   THEN /\ call.at = "done"
                        /\ Len(stamps) = call.first + MaxAttempts
                        /\ call.result = "RetryError"
                        /\ Len(call.sleeps) = 2 * n - 1
                        /\ now - stamps[call.first + 1] >=
                              MaxAttempts * LongSleep + (MaxAttempts - 1) * WaitMin
                   ELSE /\ call.at \in {"throttle", "send"}
                        /\ call.attempt = n + 1
                        /\ Len(stamps) = call.first + (IF call.at = "send" THEN n + 1 ELSE n)
                        /\ Len(call.sleeps) = 2 * n)
    /\ [][ /\ (call.at = "done" /\ call.result = "RetryError" /\ call' = NoCall) =>
                LET rid == meetings[idx]
                IN  /\ rid \notin DOMAIN processed
                    /\ rid \in DOMAIN processed'
                    /\ processed'[rid] = [drive_file_id |-> NA, synced_at |-> cycle]
                    /\ stats' = [stats EXCEPT !.errors = @ + 1]
                    /\ fetches'[rid] = fetches[rid] + 1
                    /\ drive' = drive /\ sheet' = sheet
                    /\ pc' = "loop" /\ idx' = idx + 1
           /\ \A id \in DOMAIN processed :
                /\ id \in DOMAIN processed'
                /\ processed'[id] = processed[id]
                /\ fetches'[id] = fetches[id]
           /\ (call.at = "idle" /\ call'.at # "idle") =>
                /\ call'.op = "detail"
                /\ meetings[idx] \notin DOMAIN processed
           /\ call.at # "idle" => pc = "fetch" /\ meetings[idx] \notin DOMAIN processed
         ]_vars

\* the first item was answered 429 three times in the first cycle (requests at
\* 0, 70 and 140 seconds); the second cycle has passed it over
C24_Witness ==
    /\ pc = "idle"
    /\ cycle = 2
    /\ meetings = <<"a", "b">>
    /\ "a" \in DOMAIN processed
    /\ processed["a"] = [drive_file_id |-> NA, synced_at |-> 1]
    /\ fetches["a"] = 1
    /\ drive["a"] = 0 /\ sheet["a"] = 0
    /\ stats.skipped >= 1
    /\ Len(stamps) >= MaxAttempts
    /\ stamps[2] = stamps[1] + LongSleep + WaitMin
    /\ stamps[3] = stamps[2] + LongSleep + WaitMin
    /\ now >= stamps[1] + MaxAttempts * LongSleep + (MaxAttempts - 1) * WaitMin

====
